---- MODULE Spec2Model ----
(***************************************************************************)
(* request-light, node implementation (src/node/main.ts): one top-level    *)
(* xhr call followed through request(), the response handler, the          *)
(* then-callback of xhr (decoder selection, streamed or buffered body),    *)
(* both redirect paths and the cancellation token; configure with the     *)
(* module's proxy and strictSSL settings, and the choice of a proxy agent.  *)
(*                                                                         *)
(* The transport (node's http/https, stream and zlib modules) is the       *)
(* environment: it answers each request with any status, Location and      *)
(* content-encoding of the small sets below, writes any body chunk by      *)
(* chunk, and may fail before the headers or in the middle of the body.    *)
(***************************************************************************)
EXTENDS Integers, Sequences, FiniteSets

(* ------------------------------ bounds -------------------------------- *)

\* largest explicit followRedirects value a caller passes
MaxBudget == 1
\* largest number of chunks a server writes into one response body
MaxChunks == 2
\* largest status handed to getErrorStatusDescription, next to 1223
MaxStatus == 600

(* --------------------------- input domains ---------------------------- *)

DefaultFollowRedirects == 5

Methods == {"GET", "HEAD"}

Statuses == {200, 204, 1223, 301, 304, 308, 404}

Encodings == {"none", "gzip", "deflate", "br"}

\* wire bytes; one chunk carries one byte
Bytes == {0, 1}

NoLocation == [kind |-> "none", origin |-> "", path |-> ""]

\* a path-only Location and an absolute one
Locations ==
    { NoLocation,
      [kind |-> "path", origin |-> "", path |-> "/bar"],
      [kind |-> "abs", origin |-> "B", path |-> "/foo"] }

StartUrl == [origin |-> "A", path |-> "/foo"]

\* the same path on an https origin
SecureUrl == [origin |-> "B", path |-> "/foo"]

\* parseUrl(url).protocol: origin A is served over http, origin B over https
Protocol(url) == IF url.origin = "B" THEN "https:" ELSE "http:"

\* a proxy URL that is undefined or ''
NoProxy == [scheme |-> "", host |-> ""]

\* proxy URLs handed to configure: none, an http one, one of another scheme
ProxyUrls ==
    { NoProxy, [scheme |-> "http", host |-> "P0"], [scheme |-> "socks", host |-> "P9"] }

\* process.env, its four proxy variables
NoEnv ==
    [HTTP_PROXY |-> NoProxy, http_proxy |-> NoProxy,
     HTTPS_PROXY |-> NoProxy, https_proxy |-> NoProxy]

\* every variable unset or set to a proxy URL of its own, HTTP_PROXY also
\* to one that is no http(s) URL
Envs ==
    { [HTTP_PROXY |-> a, http_proxy |-> b, HTTPS_PROXY |-> c, https_proxy |-> d] :
        a \in {NoProxy, [scheme |-> "http", host |-> "E1"],
               [scheme |-> "socks", host |-> "E9"]},
        b \in {NoProxy, [scheme |-> "http", host |-> "E2"]},
        c \in {NoProxy, [scheme |-> "https", host |-> "E3"]},
        d \in {NoProxy, [scheme |-> "http", host |-> "E4"]} }

\* options.agent: absent, the caller's own agent, or one getProxyAgent built
NoAgent == [kind |-> "none", proxy |-> NoProxy, rejectUnauthorized |-> TRUE]

OwnAgent == [kind |-> "own", proxy |-> NoProxy, rejectUnauthorized |-> TRUE]

\* strictSSL as the caller passes it: left out, or a boolean
StrictSSLs ==
    { [given |-> FALSE, v |-> TRUE] } \cup { [given |-> TRUE, v |-> b] : b \in BOOLEAN }

\* the value a call gives for one header, as the sequence of its strings:
\* none, a single one, or an array of two
HeaderValues == { << >>, << "v1" >>, << "v1", "v2" >> }

\* user, password, headers and data of a call: all left out, or all given
NoPayload == [user |-> "", password |-> "", headers |-> << >>, data |-> ""]

SomePayload == [user |-> "u", password |-> "p", headers |-> << "v1", "v2" >>, data |-> "d"]

\* followRedirects as the caller passes it: left out, or a number
Budgets ==
    { [given |-> FALSE, n |-> 0] } \cup
    { [given |-> TRUE, n |-> k] : k \in 0..MaxBudget }

GivenBudgets == { b \in Budgets : b.given }

(* ------------------------------ state --------------------------------- *)

VARIABLES
    pc,             \* stage of the exchange
    callOpts,       \* the options object the caller passed to xhr
    options,        \* `options` of the running xhr invocation (its copy)
    reqOptions,     \* `options` of the running request() invocation
    tokenCancelled, \* options.token.isCancellationRequested
    res,            \* the IncomingMessage handed over by request()
    readable,       \* the stream xhr listens on (res or the decoder)
    isCompleted,    \* xhr's isCompleted flag
    data,           \* xhr's data array (buffered mode)
    queue,          \* chunks enqueued in the ReadableStream controller
    body,           \* state of the ReadableStream given to the caller
    delivered,      \* chunks the caller has read from the body stream
    outcome,        \* state of the promise returned by the top-level xhr
    written,        \* history: bytes the server wrote on the current hop
    requests,       \* history: requests issued for the call
    preReissues,    \* history: re-issues made by request.handler
    postReissues,   \* history: re-issues made by xhr's end handler
    cancelledAt,    \* history: stage at which the token fired
    followed,       \* history: last redirect followed by request.handler
    proxyUrl,       \* module variable proxyUrl
    strictSSL,      \* module variable strictSSL
    env,            \* process.env
    lastConfigure,  \* history: arguments of the most recent configure call
    atCall,         \* history: lastConfigure when the user called xhr
    timedOut,       \* history: number of the request whose timeout elapsed
    requestInit,    \* browser implementation: the RequestInit handed to fetch
    described,      \* the last getErrorStatusDescription call: status and result
    resolved        \* per target url: the proxy resolutions made under one configuration

vars == << pc, callOpts, options, reqOptions, tokenCancelled, res, readable,
           isCompleted, data, queue, body, delivered, outcome, written,
           requests, preReissues, postReissues, cancelledAt,
           followed, proxyUrl, strictSSL, env, lastConfigure, atCall, timedOut,
           requestInit, described,
                    resolved >>

(* ------------------------- values and helpers ------------------------- *)

NoHeaders == [location |-> NoLocation, encoding |-> "none"]

NoRes == [status |-> 0, location |-> NoLocation, encoding |-> "none"]

NoOptions ==
    [url |-> StartUrl, type |-> "GET", responseType |-> "buffer",
     hasFollowRedirects |-> FALSE, followRedirects |-> 0, token |-> FALSE,
     timeout |-> "none", agent |-> NoAgent, hasStrictSSL |-> FALSE, strictSSL |-> TRUE,
     user |-> "", password |-> "", headers |-> << >>, data |-> ""]

\* `void 0`
Nothing == [text |-> "", arg |-> 0]

\* l10n.t(text)
Fixed(text) == [text |-> text, arg |-> 0]

\* l10n.t('HTTP status code {0}', status)
Generic(status) == [text |-> "HTTP status code {0}", arg |-> status]

\* the urls getProxyAgent is asked about
Targets == {StartUrl, SecureUrl}

NoResolution ==
    [n |-> 0, o |-> [proxyUrl |-> NoProxy, strictSSL |-> TRUE], first |-> NoAgent,
     last |-> NoAgent]

NeverResolved == [u \in Targets |-> NoResolution]

NotDescribed == [status |-> 0, result |-> Nothing, called |-> FALSE]

NoRequestInit == [method |-> "", redirect |-> "", headers |-> << >>, signal |-> FALSE]

NeverConfigured == [called |-> FALSE, proxyUrl |-> NoProxy, strictSSL |-> TRUE]

NoUrl == [origin |-> "", path |-> ""]

NoMessage == [format |-> "", url |-> NoUrl]

NoReadable == [kind |-> "raw", state |-> "none", started |-> FALSE, srcAlive |-> FALSE]

NoBody == [state |-> "none", closeRequested |-> FALSE, err |-> "none", seen |-> "none"]

NoFollowed == [from |-> StartUrl, location |-> NoLocation]

Pending ==
    [kind |-> "pending", what |-> "none", status |-> 0, headers |-> NoHeaders, body |-> << >>,
     message |-> NoMessage]

\* the AbortError instance handed to destroy() and passed on by both handlers
AbortRejection ==
    [kind |-> "rejected", what |-> "abort", status |-> 0, headers |-> NoHeaders, body |-> << >>,
     message |-> NoMessage]

\* variant: the message never mentions a proxy
ConnectMessage_NeverProxy(o) ==
    [format |-> "Unable to connect to {0}. Error: {1}", url |-> o.url]

\* the message of the rejection handler, {0} being options.url
ConnectMessage(o) ==
    [format |-> IF o.agent # NoAgent
                THEN "Unable to connect to {0} through a proxy. Error: {1}"
                ELSE "Unable to connect to {0}. Error: {1}",
     url |-> o.url]

\* rejection handler of request(options).then(..), options being xhr's
ConnectRejection ==
    [kind |-> "rejected", what |-> "unableToConnect", status |-> 404,
     headers |-> NoHeaders, body |-> << >>, message |-> ConnectMessage(options)]

\* readable 'error' handler: 'Unable to access {0}', body is what was collected
StreamRejection(collected) ==
    [kind |-> "rejected", what |-> "unableToAccess", status |-> 500,
     headers |-> NoHeaders, body |-> collected,
     message |-> [format |-> "Unable to access {0}. Error: {1}", url |-> options.url]]

\* the XHRResponse assembled by the end handler, resolved or rejected by status
IsSuccess(status) == (status >= 200 /\ status < 300) \/ status = 1223

Classified(r, collected) ==
    [kind |-> IF IsSuccess(r.status) THEN "resolved" ELSE "rejected",
     what |-> "response", status |-> r.status,
     headers |-> [location |-> r.location, encoding |-> r.encoding],
     body |-> collected, message |-> NoMessage]

\* variant: a stream response is classified by its status as a buffered one
StreamResponse_Classified(r) ==
    [kind |-> IF IsSuccess(r.status) THEN "resolved" ELSE "rejected",
     what |-> "stream", status |-> r.status,
     headers |-> [location |-> r.location, encoding |-> r.encoding],
     body |-> << >>, message |-> NoMessage]

\* the StreamXHRResponse: responseText '', body the ReadableStream
StreamResponse(r) ==
    [kind |-> "resolved", what |-> "stream", status |-> r.status,
     headers |-> [location |-> r.location, encoding |-> r.encoding],
     body |-> << >>, message |-> NoMessage]

\* a promise settles once: later calls of c or e change nothing
Settle(o) == IF outcome.kind = "pending" THEN o ELSE outcome

\* options.followRedirects after xhr's defaulting
EffectiveBudget(o) == IF o.hasFollowRedirects THEN o.followRedirects ELSE DefaultFollowRedirects

\* variant: a 304 is taken to carry a body
hasNoBody_Without304(method, code) ==
    method = "HEAD" \/ (code >= 100 /\ code < 200) \/ code = 204

\* a || b on proxy URLs
Either(a, b) == IF a # NoProxy THEN a ELSE b

getSystemProxyURI(requestURL) ==
    IF Protocol(requestURL) = "http:"
    THEN Either(env.HTTP_PROXY, env.http_proxy)
    ELSE IF Protocol(requestURL) = "https:"
         THEN Either(env.HTTPS_PROXY,
                     Either(env.https_proxy, Either(env.HTTP_PROXY, env.http_proxy)))
         ELSE NoProxy

\* variant: the environment is asked before the configured proxy URL
getProxyAgent_EnvFirst(rawRequestURL, o) ==
    LET proxyURL == Either(getSystemProxyURI(rawRequestURL), o.proxyUrl)
    IN  IF proxyURL = NoProxy THEN NoAgent
        ELSE IF proxyURL.scheme \notin {"http", "https"} THEN NoAgent
        ELSE IF Protocol(rawRequestURL) = "http:"
             THEN [kind |-> "HttpProxyAgent", proxy |-> proxyURL, rejectUnauthorized |-> TRUE]
             ELSE [kind |-> "HttpsProxyAgent", proxy |-> proxyURL,
                   rejectUnauthorized |-> o.strictSSL]

\* variant: the scheme of the proxy URL is not looked at
getProxyAgent_AnyScheme(rawRequestURL, o) ==
    LET proxyURL == Either(o.proxyUrl, getSystemProxyURI(rawRequestURL))
    IN  IF proxyURL = NoProxy THEN NoAgent
        ELSE IF Protocol(rawRequestURL) = "http:"
             THEN [kind |-> "HttpProxyAgent", proxy |-> proxyURL, rejectUnauthorized |-> TRUE]
             ELSE [kind |-> "HttpsProxyAgent", proxy |-> proxyURL,
                   rejectUnauthorized |-> o.strictSSL]

\* o is { proxyUrl, strictSSL }. An HttpProxyAgent is given no
\* rejectUnauthorized and validates with the default of tls, true.
getProxyAgent(rawRequestURL, o) ==
    LET proxyURL == Either(o.proxyUrl, getSystemProxyURI(rawRequestURL))
    IN  IF proxyURL = NoProxy THEN NoAgent
        ELSE IF proxyURL.scheme \notin {"http", "https"} THEN NoAgent
        ELSE IF Protocol(rawRequestURL) = "http:"
             THEN [kind |-> "HttpProxyAgent", proxy |-> proxyURL, rejectUnauthorized |-> TRUE]
             ELSE [kind |-> "HttpsProxyAgent", proxy |-> proxyURL,
                   rejectUnauthorized |-> o.strictSSL]

\* xhr's defaulting of strictSSL, agent and followRedirects on its copy
XhrDefaults(o) ==
    [o EXCEPT !.hasStrictSSL = TRUE,
              !.strictSSL = IF o.hasStrictSSL THEN o.strictSSL ELSE strictSSL,
              !.agent = IF o.agent # NoAgent THEN o.agent
                        ELSE getProxyAgent(o.url, [proxyUrl |-> proxyUrl,
                                                   strictSSL |-> strictSSL]),
              !.hasFollowRedirects = TRUE,
              !.followRedirects = EffectiveBudget(o)]

\* opts of request(): the agent and the certificate check of the connection
RequestOpts(o) ==
    [agent |-> o.agent,
     headers |-> o.headers,
     rejectUnauthorized |-> IF o.hasStrictSSL THEN o.strictSSL ELSE TRUE]

hasNoBody(method, code) ==
    method = "HEAD" \/ (code >= 100 /\ code < 200) \/ code = 204 \/ code = 304

\* which stream xhr reads: the response itself or a zlib decoder fed by it
DecoderFor(encoding, method, code) ==
    IF encoding # "none" /\ ~hasNoBody(method, code)
    THEN IF encoding = "gzip" THEN "gzip"
         ELSE IF encoding = "deflate" THEN "deflate"
         ELSE "raw"
    ELSE "raw"

\* variant: no call is taken as a streamed one
isStreamXHROptions_Never(o) == FALSE

isStreamXHROptions(o) == o.responseType = "stream"

\* variant: the hop budget is not consulted
RedirectsBeforeBody_IgnoresBudget(o, r) ==
    /\ r.status >= 300 /\ r.status < 400
    /\ r.location # NoLocation

\* variant: request.handler leaves the redirects of a streamed call alone
RedirectsBeforeBody_NotWhenStreaming(o, r) ==
    /\ r.status >= 300 /\ r.status < 400
    /\ o.followRedirects > 0
    /\ r.location # NoLocation
    /\ o.responseType # "stream"

\* guard of the redirect in request.handler, before any body is read
RedirectsBeforeBody(o, r) ==
    /\ r.status >= 300 /\ r.status < 400
    /\ o.followRedirects > 0
    /\ r.location # NoLocation

\* variant: the end handler follows a Location whatever the status
RedirectsAfterBody_AnyStatus(o, r) == o.followRedirects > 0

\* guard of the redirect in xhr's end handler, after the body was read
RedirectsAfterBody(o, r) ==
    /\ o.followRedirects > 0
    /\ ((r.status >= 300 /\ r.status <= 303) \/ r.status = 307)

\* variant: a path-only Location is taken as the new url as it stands
ResolveLocation_Unresolved(url, loc) == [origin |-> loc.origin, path |-> loc.path]

\* location.startsWith('/') ? format({protocol, hostname, port, pathname}) : location
ResolveLocation(url, loc) ==
    IF loc.kind = "path"
    THEN [origin |-> url.origin, path |-> loc.path]
    ELSE [origin |-> loc.origin, path |-> loc.path]

\* the zlib decoders: a stream opens with the format's header byte, which
\* yields no output; every later byte decodes to one output byte. With
\* finishFlush Z_SYNC_FLUSH an empty or truncated input ends without error.
Magic(kind) == IF kind = "gzip" THEN 1 ELSE 0

DecodeByte(b) == 1 - b

DecodeOk(kind, w) == w = << >> \/ w[1] = Magic(kind)

Decode(kind, w) ==
    IF w = << >> THEN << >> ELSE [i \in 1..(Len(w) - 1) |-> DecodeByte(w[i + 1])]

\* what the stream xhr listens on emits for one wire chunk:
\* "data" with a chunk, "skip" (header consumed) or "error"
Emits(rd, b) ==
    IF rd.kind = "raw" THEN [ev |-> "data", chunk |-> b]
    ELSE IF ~rd.started
         THEN IF b = Magic(rd.kind) THEN [ev |-> "skip", chunk |-> b]
              ELSE [ev |-> "error", chunk |-> b]
         ELSE [ev |-> "data", chunk |-> DecodeByte(b)]

(* ------------------------------- Init --------------------------------- *)

\* variant: the process starts without the certificate check
InitWith_Lax(envs) ==
    /\ pc = "idle"
    /\ callOpts = NoOptions
    /\ options = NoOptions
    /\ reqOptions = NoOptions
    /\ tokenCancelled = FALSE
    /\ res = NoRes
    /\ readable = NoReadable
    /\ isCompleted = FALSE
    /\ data = << >>
    /\ queue = << >>
    /\ body = NoBody
    /\ delivered = << >>
    /\ outcome = Pending
    /\ written = << >>
    /\ requests = 0
    /\ preReissues = 0
    /\ postReissues = 0
    /\ cancelledAt = "none"
    /\ followed = NoFollowed
    /\ proxyUrl = NoProxy
    /\ strictSSL = FALSE
    /\ env \in envs
    /\ lastConfigure = NeverConfigured
    /\ atCall = NeverConfigured
    /\ timedOut = 0
    /\ requestInit = NoRequestInit
    /\ described = NotDescribed
    /\ resolved = NeverResolved

\* the module is loaded and no call has been made
\* the module is loaded and no call was made; envs is where process.env is drawn from
InitWith(envs) ==
    /\ pc = "idle"
    /\ callOpts = NoOptions
    /\ options = NoOptions
    /\ reqOptions = NoOptions
    /\ tokenCancelled = FALSE
    /\ res = NoRes
    /\ readable = NoReadable
    /\ isCompleted = FALSE
    /\ data = << >>
    /\ queue = << >>
    /\ body = NoBody
    /\ delivered = << >>
    /\ outcome = Pending
    /\ written = << >>
    /\ requests = 0
    /\ preReissues = 0
    /\ postReissues = 0
    /\ cancelledAt = "none"
    /\ followed = NoFollowed
    /\ proxyUrl = NoProxy
    /\ strictSSL = TRUE
    /\ env \in envs
    /\ lastConfigure = NeverConfigured
    /\ atCall = NeverConfigured
    /\ timedOut = 0
    /\ requestInit = NoRequestInit
    /\ described = NotDescribed
    /\ resolved = NeverResolved

Init == InitWith({NoEnv})

InitProxy == InitWith(Envs)

(* ------------------------------ request ------------------------------- *)

\* variant: the token's state is not looked at when the request is issued
DestroyedAtIssue_Never(o, cancelled) == FALSE

\* request(o): the request is created and sent; a token that is already
\* cancelled destroys it with an AbortError at once, which the 'error'
\* listener hands to e and xhr's rejection handler passes on unchanged.
DestroyedAtIssue(o, cancelled) == o.token /\ cancelled

\* state after xhr(xo) has called request(ro); cancelled is the token's state
Issue(xo, ro, cancelled) ==
    /\ options' = xo
    /\ reqOptions' = ro
    /\ requests' = requests + 1
    /\ res' = NoRes
    /\ readable' = NoReadable
    /\ isCompleted' = FALSE
    /\ data' = << >>
    /\ written' = << >>
    /\ IF DestroyedAtIssue(ro, cancelled)
       THEN /\ pc' = "done"
            /\ outcome' = Settle(AbortRejection)
       ELSE /\ pc' = "connecting"
            /\ outcome' = outcome

\* xhr(options) called by the user: options are copied, strictSSL, agent and
\* followRedirects are defaulted, then request(options) runs up to the end
\* of its executor. The arguments are the sets the caller's options are
\* drawn from.
CallWith(urls, types, rts, budgets, toks, timeouts, agents, stricts, payloads) ==
    /\ pc = "idle"
    /\ \E url \in urls, type \in types, rt \in rts, fr \in budgets,
          tok \in toks, pre \in BOOLEAN, tmo \in timeouts, ag \in agents,
          ssl \in stricts, pl \in payloads :
         LET given == [url |-> url, type |-> type, responseType |-> rt,
                       hasFollowRedirects |-> fr.given, followRedirects |-> fr.n,
                       token |-> tok, timeout |-> tmo, agent |-> ag,
                       hasStrictSSL |-> ssl.given, strictSSL |-> ssl.v,
                       user |-> pl.user, password |-> pl.password,
                       headers |-> pl.headers, data |-> pl.data]
             copy == XhrDefaults(given)
         IN  /\ pre => tok
             /\ callOpts' = given
             /\ tokenCancelled' = pre
             /\ cancelledAt' = IF pre THEN "before" ELSE "none"
             /\ Issue(copy, copy, pre)
    /\ followed' = NoFollowed
    /\ atCall' = lastConfigure
    /\ UNCHANGED << queue, body, delivered, preReissues, postReissues,
                    proxyUrl, strictSSL, env, lastConfigure, timedOut, requestInit,
                    described,
                    resolved >>

\* calls that leave timeout, agent, strictSSL, credentials, headers and data out
Call ==
    CallWith({StartUrl}, Methods, {"buffer", "stream"}, Budgets, BOOLEAN,
             {"none"}, {NoAgent}, {[given |-> FALSE, v |-> TRUE]}, {NoPayload})

\* buffered GET calls without a token that give followRedirects, a timeout,
\* headers, credentials and data, and any agent and strictSSL
CallConfigured ==
    CallWith({StartUrl, SecureUrl}, {"GET"}, {"buffer"}, GivenBudgets, {FALSE},
             {"t"}, {NoAgent, OwnAgent}, StrictSSLs, {SomePayload})

\* buffered GET calls without a token, with and without a timeout
CallTimeout ==
    CallWith({StartUrl}, {"GET"}, {"buffer"}, GivenBudgets, {FALSE},
             {"none", "t"}, {NoAgent}, {[given |-> FALSE, v |-> TRUE]}, {NoPayload})

\* variant: configure keeps the proxy URL it had
configure_KeepsProxyUrl ==
    /\ \E url \in ProxyUrls, strict \in BOOLEAN :
         /\ proxyUrl' = proxyUrl
         /\ strictSSL' = strict
         /\ lastConfigure' = [called |-> TRUE, proxyUrl |-> url, strictSSL |-> strict]
    /\ UNCHANGED << pc, callOpts, options, reqOptions, tokenCancelled, res, readable,
                    isCompleted, data, queue, body, delivered, outcome, written,
                    requests, preReissues, postReissues, cancelledAt, followed,
                    env, atCall, timedOut, requestInit, described,
                    resolved >>

\* configure(_proxyUrl, _strictSSL)
configure ==
    /\ \E url \in ProxyUrls, strict \in BOOLEAN :
         /\ proxyUrl' = url
         /\ strictSSL' = strict
         /\ lastConfigure' = [called |-> TRUE, proxyUrl |-> url, strictSSL |-> strict]
    /\ UNCHANGED << pc, callOpts, options, reqOptions, tokenCancelled, res, readable,
                    isCompleted, data, queue, body, delivered, outcome, written,
                    requests, preReissues, postReissues, cancelledAt, followed,
                    env, atCall, timedOut, requestInit, described,
                    resolved >>

\* options.timeout elapses on the socket of the request in flight: the
\* request emits 'timeout'. req.setTimeout was given no callback and no
\* 'timeout' listener is registered, so nothing runs.
Timeout ==
    /\ pc = "connecting"
    /\ reqOptions.timeout # "none"
    /\ timedOut # requests
    /\ timedOut' = requests
    /\ UNCHANGED << pc, callOpts, options, reqOptions, tokenCancelled, res, readable,
                    isCompleted, data, queue, body, delivered, outcome, written,
                    requests, preReissues, postReissues, cancelledAt, followed,
                    proxyUrl, strictSSL, env, lastConfigure, atCall, requestInit,
                    described,
                    resolved >>

\* the response callback of http.request: either re-issue towards the
\* Location (the response body is never read) or hand { req, res } to xhr
ResponseWith(statuses, encodings) ==
    /\ UNCHANGED << proxyUrl, strictSSL, env, lastConfigure, atCall, timedOut, requestInit,
                    described,
                    resolved >>
    /\ pc = "connecting"
    /\ \E st \in statuses, loc \in Locations, enc \in encodings :
         LET r == [status |-> st, location |-> loc, encoding |-> enc]
         IN  IF RedirectsBeforeBody(reqOptions, r)
             THEN /\ Issue(options,
                           [reqOptions EXCEPT
                              !.url = ResolveLocation(reqOptions.url, loc),
                              !.followRedirects = reqOptions.followRedirects - 1],
                           tokenCancelled)
                  /\ preReissues' = preReissues + 1
                  /\ followed' = [from |-> reqOptions.url, location |-> loc]
             ELSE /\ pc' = "headers"
                  /\ res' = r
                  /\ UNCHANGED << options, reqOptions, requests, readable, isCompleted,
                                  data, written, outcome, preReissues, followed >>
    /\ UNCHANGED << callOpts, tokenCancelled, queue, body, delivered, postReissues,
                    cancelledAt >>

Response == ResponseWith(Statuses, Encodings)

\* answers of a server that knows two statuses and no content-encoding
ResponseConfigured == ResponseWith({200, 301}, {"none"})

\* req 'error' before any response (DNS, connect, TLS): e(err), then the
\* rejection handler of xhr builds the 404 response
ReqError ==
    /\ UNCHANGED << proxyUrl, strictSSL, env, lastConfigure, atCall, timedOut, requestInit,
                    described,
                    resolved >>
    /\ pc = "connecting"
    /\ pc' = "done"
    /\ outcome' = Settle(ConnectRejection)
    /\ UNCHANGED << callOpts, options, reqOptions, tokenCancelled, res, readable,
                    isCompleted, data, queue, body, delivered, written, requests,
                    preReissues, postReissues, cancelledAt, followed >>

(* -------------------------- xhr: then-callback ------------------------ *)

\* if (options.token) { if (options.token.isCancellationRequested) destroy }
CancelledAtAttach(o, cancelled) == o.token /\ cancelled

\* the callback of request(options).then: the decoder is chosen and the
\* listeners are attached; in streamed mode the call resolves here
Attach ==
    /\ UNCHANGED << proxyUrl, strictSSL, env, lastConfigure, atCall, timedOut, requestInit,
                    described,
                    resolved >>
    /\ pc = "headers"
    /\ LET kind == DecoderFor(res.encoding, options.type, res.status)
           open == [kind |-> kind, state |-> "open", started |-> FALSE, srcAlive |-> TRUE]
           hit  == CancelledAtAttach(options, tokenCancelled)
       IN  IF isStreamXHROptions(options)
           THEN /\ pc' = "streaming"
                /\ readable' = IF hit THEN [open EXCEPT !.state = "destroyed"] ELSE open
                /\ body' = IF hit
                           THEN [NoBody EXCEPT !.state = "errored", !.err = "abort"]
                           ELSE [NoBody EXCEPT !.state = "readable"]
                /\ outcome' = Settle(StreamResponse(res))
                /\ UNCHANGED << isCompleted, data >>
           ELSE /\ data' = << >>
                /\ body' = body
                /\ IF hit
                   THEN /\ readable' = [open EXCEPT !.state = "destroyed"]
                        /\ isCompleted' = TRUE
                        /\ outcome' = Settle(AbortRejection)
                        /\ pc' = "done"
                   ELSE /\ readable' = open
                        /\ isCompleted' = FALSE
                        /\ outcome' = outcome
                        /\ pc' = "buffering"
    /\ UNCHANGED << callOpts, options, reqOptions, tokenCancelled, res, queue, delivered,
                    written, requests, preReissues, postReissues, cancelledAt,
                    followed >>

(* --------------------------- body events ------------------------------ *)

\* variants: the new chunk is put in front
Collect_Prepend(d, c) == << c >> \o d

Enqueue_Prepend(q, c) == << c >> \o q

\* readable.on('data', c => data.push(c))
Collect(d, c) == Append(d, c)

\* readable.on('data', chunk => controller.enqueue(chunk))
Enqueue(q, c) == Append(q, c)

Flowing == pc \in {"buffering", "streaming"} /\ readable.state = "open" /\ readable.srcAlive

\* the server writes one more chunk and the transport hands it to the
\* response stream, which feeds the decoder when one is interposed
WireData ==
    /\ UNCHANGED << proxyUrl, strictSSL, env, lastConfigure, atCall, timedOut, requestInit,
                    described,
                    resolved >>
    /\ Flowing
    /\ ~hasNoBody(options.type, res.status)
    /\ Len(written) < MaxChunks
    /\ \E b \in Bytes :
         LET out == Emits(readable, b)
         IN  /\ written' = Append(written, b)
             /\ IF out.ev = "data"
                THEN /\ IF pc = "buffering"
                        THEN data' = Collect(data, out.chunk) /\ queue' = queue
                        ELSE queue' = Enqueue(queue, out.chunk) /\ data' = data
                     /\ UNCHANGED << pc, readable, isCompleted, body, outcome >>
                ELSE IF out.ev = "skip"
                THEN /\ readable' = [readable EXCEPT !.started = TRUE]
                     /\ UNCHANGED << pc, isCompleted, data, queue, body, outcome >>
                ELSE \* the decoder rejects the input: 'error' on readable
                     /\ readable' = [readable EXCEPT !.state = "destroyed"]
                     /\ IF pc = "buffering"
                        THEN /\ isCompleted' = TRUE
                             /\ outcome' = Settle(StreamRejection(data))
                             /\ pc' = "done"
                             /\ UNCHANGED << queue, body >>
                        ELSE /\ body' = [body EXCEPT !.state = "errored", !.err = "other"]
                             /\ queue' = << >>
                             /\ UNCHANGED << pc, isCompleted, outcome >>
                     /\ data' = data
    /\ UNCHANGED << callOpts, options, reqOptions, tokenCancelled, res, delivered,
                    requests, preReissues, postReissues, cancelledAt, followed >>

\* variant: the end handler hands the budget on as it is
NewOptions_SameBudget(o, location) ==
    [url |-> location, type |-> o.type, responseType |-> "buffer",
     hasFollowRedirects |-> TRUE, followRedirects |-> o.followRedirects,
     token |-> o.token, timeout |-> o.timeout, agent |-> NoAgent,
     hasStrictSSL |-> FALSE, strictSSL |-> TRUE,
     user |-> o.user, password |-> o.password, headers |-> o.headers, data |-> o.data]

\* newOptions of the end handler: url and followRedirects replaced; the
\* nested xhr applies its defaults to the fields newOptions leaves out
NewOptions(o, location) ==
    [url |-> location, type |-> o.type, responseType |-> "buffer",
     hasFollowRedirects |-> TRUE, followRedirects |-> o.followRedirects - 1,
     token |-> o.token, timeout |-> o.timeout, agent |-> NoAgent,
     hasStrictSSL |-> FALSE, strictSSL |-> TRUE,
     user |-> o.user, password |-> o.password, headers |-> o.headers, data |-> o.data]

\* variant: the decoders finish with Z_FINISH, for which an input that stops
\* before the end of the compressed stream, an empty one included, is an error
FinishesCleanly_DefaultFlush(rd, w) == rd.kind = "raw"

\* zlibOptions.finishFlush = Z_SYNC_FLUSH: when its input ends the decoder
\* flushes what it has and ends, whether or not the compressed stream is
\* complete; a raw response just ends
FinishesCleanly(rd, w) == TRUE

\* the decoder fails at the end of its input: 'error' on readable
FinishError ==
    /\ readable' = [readable EXCEPT !.state = "destroyed"]
    /\ IF pc = "buffering"
       THEN /\ isCompleted' = TRUE
            /\ outcome' = Settle(StreamRejection(data))
            /\ pc' = "done"
            /\ UNCHANGED << body, queue >>
       ELSE /\ body' = [body EXCEPT !.state = "errored", !.err = "other"]
            /\ queue' = << >>
            /\ UNCHANGED << pc, isCompleted, outcome >>
    /\ UNCHANGED << options, reqOptions, res, data, written, requests, postReissues,
                    followed >>

\* variant: the end handler does not look at isCompleted
AlreadyCompleted_Never(flag) == FALSE

\* if (isCompleted) { return; } at the head of the end handler
AlreadyCompleted(flag) == flag

\* the response ends: 'end' on the stream xhr listens on
WireEnd ==
    /\ UNCHANGED << proxyUrl, strictSSL, env, lastConfigure, atCall, timedOut, requestInit,
                    described,
                    resolved >>
    /\ Flowing
    /\ IF ~FinishesCleanly(readable, written) THEN FinishError ELSE
       IF pc = "streaming"
       THEN \* controller.close()
            /\ readable' = [readable EXCEPT !.state = "ended"]
            /\ body' = IF queue = << >>
                       THEN [body EXCEPT !.state = "closed"]
                       ELSE [body EXCEPT !.closeRequested = TRUE]
            /\ UNCHANGED << queue, pc, options, reqOptions, res, isCompleted, data, outcome,
                            written, requests, postReissues, followed >>
       ELSE IF AlreadyCompleted(isCompleted)
       THEN /\ readable' = [readable EXCEPT !.state = "ended"]
            /\ UNCHANGED << queue, pc, options, reqOptions, res, isCompleted, data, body,
                            outcome, written, requests, postReissues, followed >>
       ELSE IF RedirectsAfterBody(options, res)
       THEN IF res.location = NoLocation
            THEN \* location.startsWith on undefined: the listener throws
                 /\ pc' = "crashed"
                 /\ readable' = [readable EXCEPT !.state = "ended"]
                 /\ isCompleted' = TRUE
                 /\ UNCHANGED << queue, options, reqOptions, res, data, body, outcome,
                                 written, requests, postReissues, followed >>
            ELSE \* xhr(newOptions).then(c, e)
                 /\ LET next == XhrDefaults(NewOptions(options,
                                          ResolveLocation(options.url, res.location)))
                    IN  Issue(next, next, tokenCancelled)
                 /\ postReissues' = postReissues + 1
                 /\ followed' = NoFollowed
                 /\ body' = body /\ queue' = queue
       ELSE /\ pc' = "done"
            /\ readable' = [readable EXCEPT !.state = "ended"]
            /\ isCompleted' = TRUE
            /\ outcome' = Settle(Classified(res, data))
            /\ UNCHANGED << queue, options, reqOptions, res, data, body, written, requests,
                            postReissues, followed >>
    /\ UNCHANGED << callOpts, tokenCancelled, delivered, preReissues, cancelledAt >>

\* the connection breaks before the response has ended: 'error' on res.
\* pipe() does not forward it: a decoder fed by res neither errors nor ends
WireError ==
    /\ UNCHANGED << proxyUrl, strictSSL, env, lastConfigure, atCall, timedOut, requestInit,
                    described,
                    resolved >>
    /\ Flowing
    /\ IF readable.kind # "raw"
       THEN /\ readable' = [readable EXCEPT !.srcAlive = FALSE]
            /\ UNCHANGED << pc, isCompleted, outcome, body, queue >>
       ELSE /\ readable' = [readable EXCEPT !.state = "destroyed", !.srcAlive = FALSE]
            /\ IF pc = "buffering"
               THEN /\ isCompleted' = TRUE
                    /\ outcome' = Settle(StreamRejection(data))
                    /\ pc' = "done"
                    /\ UNCHANGED << body, queue >>
               ELSE /\ body' = [body EXCEPT !.state = "errored", !.err = "other"]
                    /\ queue' = << >>
                    /\ UNCHANGED << pc, isCompleted, outcome >>
    /\ UNCHANGED << callOpts, options, reqOptions, tokenCancelled, res, data, delivered,
                    written, requests, preReissues, postReissues, cancelledAt, followed >>

\* 'end' is emitted on a stream that has reported an error to the buffered
\* error handler: the end handler runs once more
LateEnd ==
    /\ UNCHANGED << proxyUrl, strictSSL, env, lastConfigure, atCall, timedOut, requestInit,
                    described,
                    resolved >>
    /\ pc = "done"
    /\ readable.state = "destroyed"
    /\ IF AlreadyCompleted(isCompleted)
       THEN /\ readable' = [readable EXCEPT !.state = "destroyedEnded"]
            /\ UNCHANGED << pc, options, reqOptions, res, isCompleted, data, outcome,
                            written, requests, postReissues, followed >>
       ELSE IF RedirectsAfterBody(options, res)
       THEN IF res.location = NoLocation
            THEN /\ pc' = "crashed"
                 /\ readable' = [readable EXCEPT !.state = "destroyedEnded"]
                 /\ isCompleted' = TRUE
                 /\ UNCHANGED << options, reqOptions, res, data, outcome, written,
                                 requests, postReissues, followed >>
            ELSE /\ LET next == XhrDefaults(NewOptions(options,
                                          ResolveLocation(options.url, res.location)))
                    IN  Issue(next, next, tokenCancelled)
                 /\ postReissues' = postReissues + 1
                 /\ followed' = NoFollowed
       ELSE /\ readable' = [readable EXCEPT !.state = "destroyedEnded"]
            /\ isCompleted' = TRUE
            /\ outcome' = Settle(Classified(res, data))
            /\ UNCHANGED << pc, options, reqOptions, res, data, written, requests,
                            postReissues, followed >>
    /\ UNCHANGED << callOpts, tokenCancelled, queue, body, delivered, preReissues,
                    cancelledAt >>

(* ---------------------------- cancellation ---------------------------- *)

\* the token fires: every listener registered with onCancellationRequested
\* runs, req.destroy(new AbortError()) of request() first, then
\* readable.destroy(new AbortError()) of xhr. destroy() of a request whose
\* promise is resolved, or of a stream that has ended or is destroyed,
\* changes nothing.
Cancel ==
    /\ UNCHANGED << proxyUrl, strictSSL, env, lastConfigure, atCall, timedOut, requestInit,
                    described,
                    resolved >>
    /\ callOpts.token
    /\ ~tokenCancelled
    /\ pc # "idle"
    /\ tokenCancelled' = TRUE
    /\ cancelledAt' = IF cancelledAt # "none" THEN cancelledAt
                      ELSE IF pc = "streaming" /\ body.state # "readable" THEN "drained"
                      ELSE IF outcome.kind # "pending" /\ pc # "streaming" THEN "settled"
                      ELSE pc
    /\ IF pc = "connecting"
       THEN \* 'error' on req with the AbortError: e(err), passed on by xhr
            /\ pc' = "done"
            /\ outcome' = Settle(AbortRejection)
            /\ UNCHANGED << readable, isCompleted, body, queue >>
       ELSE IF pc = "buffering" /\ readable.state = "open"
       THEN \* 'error' on readable with the AbortError
            /\ pc' = "done"
            /\ readable' = [readable EXCEPT !.state = "destroyed"]
            /\ isCompleted' = TRUE
            /\ outcome' = Settle(AbortRejection)
            /\ UNCHANGED << body, queue >>
       ELSE IF pc = "streaming" /\ readable.state = "open"
       THEN \* 'error' on readable: controller.error(err)
            /\ readable' = [readable EXCEPT !.state = "destroyed"]
            /\ body' = [body EXCEPT !.state = "errored", !.err = "abort"]
            /\ queue' = << >>
            /\ UNCHANGED << pc, isCompleted, outcome >>
       ELSE UNCHANGED << pc, readable, isCompleted, body, queue, outcome >>
    /\ UNCHANGED << callOpts, options, reqOptions, res, data, delivered, written,
                    requests, preReissues, postReissues, followed >>

(* ------------------------ the caller's reader ------------------------- *)

\* the caller reads the next chunk of response.body
CallerRead ==
    /\ UNCHANGED << proxyUrl, strictSSL, env, lastConfigure, atCall, timedOut, requestInit,
                    described,
                    resolved >>
    /\ pc = "streaming"
    /\ body.state = "readable"
    /\ queue # << >>
    /\ delivered' = Append(delivered, Head(queue))
    /\ queue' = Tail(queue)
    /\ body' = IF body.closeRequested /\ Tail(queue) = << >>
               THEN [body EXCEPT !.state = "closed"]
               ELSE body
    /\ UNCHANGED << pc, callOpts, options, reqOptions, tokenCancelled, res, readable,
                    isCompleted, data, outcome, written, requests, preReissues,
                    postReissues, cancelledAt, followed >>

\* the caller's read finds the stream closed (done) or errored
CallerSeesEnd ==
    /\ UNCHANGED << proxyUrl, strictSSL, env, lastConfigure, atCall, timedOut, requestInit,
                    described,
                    resolved >>
    /\ pc = "streaming"
    /\ body.state \in {"closed", "errored"}
    /\ body.seen = "none"
    /\ body' = [body EXCEPT !.seen = IF body.state = "closed" THEN "done" ELSE body.err]
    /\ UNCHANGED << pc, callOpts, options, reqOptions, tokenCancelled, res, readable,
                    isCompleted, data, queue, delivered, outcome, written, requests,
                    preReissues, postReissues, cancelledAt, followed >>

(* --------------------------- specification ---------------------------- *)

Next ==
    \/ Call
    \/ Response
    \/ ReqError
    \/ Attach
    \/ WireData
    \/ WireEnd
    \/ WireError
    \/ Cancel
    \/ CallerRead
    \/ CallerSeesEnd

Spec == Init /\ [][Next]_vars

\* calls with an agent, strictSSL and a payload, between and during which
\* configure is called, answered without a body
NextConfigured ==
    \/ configure
    \/ CallConfigured
    \/ ResponseConfigured
    \/ ReqError
    \/ Attach
    \/ WireEnd
    \/ WireError

SpecConfigured == Init /\ [][NextConfigured]_vars

\* calls whose timeout may elapse before the headers, answered without a body
NextTimeout ==
    \/ CallTimeout
    \/ Timeout
    \/ ResponseConfigured
    \/ ReqError
    \/ Attach
    \/ WireEnd
    \/ WireError

SpecTimeout == Init /\ [][NextTimeout]_vars

\* the agent chosen for a call, under every environment and configuration
CallProxy ==
    CallWith({StartUrl, SecureUrl}, {"GET"}, {"buffer"}, {[given |-> TRUE, n |-> 0]},
             {FALSE}, {"none"}, {NoAgent, OwnAgent}, StrictSSLs, {NoPayload})

NextProxy ==
    \/ configure
    \/ CallProxy
    \/ ReqError

SpecProxy == InitProxy /\ [][NextProxy]_vars

\* buffered calls with and without a token, with any budget or none
CallBuffered ==
    CallWith({StartUrl}, {"GET"}, {"buffer"}, Budgets, BOOLEAN,
             {"none"}, {NoAgent}, {[given |-> FALSE, v |-> TRUE]}, {NoPayload})

\* buffered calls on whose streams an 'end' may follow an 'error'
NextLateEnd ==
    \/ CallBuffered
    \/ Response
    \/ Attach
    \/ WireData
    \/ WireEnd
    \/ WireError
    \/ Cancel
    \/ LateEnd

SpecLateEnd == Init /\ [][NextLateEnd]_vars

\* buffered GET calls without a token, with any budget or none
CallRedirecting ==
    CallWith({StartUrl}, {"GET"}, {"buffer"}, Budgets, {FALSE},
             {"none"}, {NoAgent}, {[given |-> FALSE, v |-> TRUE]}, {NoPayload})

\* a server that answers every request with a redirect carrying a Location
ResponseRedirecting ==
    /\ ResponseWith({301, 308}, {"none"})
    /\ pc' = "headers" => res'.location # NoLocation

\* calls against that server; every response arrives and ends
NextRedirecting ==
    \/ CallRedirecting
    \/ ResponseRedirecting
    \/ Attach
    \/ WireData
    \/ WireEnd

\* the server answers every request, the callbacks run and the body ends
FairRedirecting ==
    /\ WF_vars(ResponseRedirecting)
    /\ WF_vars(Attach)
    /\ WF_vars(WireEnd)

SpecRedirecting == Init /\ [][NextRedirecting]_vars /\ FairRedirecting

(* ----------------------- browser implementation ----------------------- *)

\* the state the browser implementation has no use for
nodeOnly == << reqOptions, readable, isCompleted, queue, body, delivered, postReissues,
               followed, proxyUrl, strictSSL, env, lastConfigure, atCall, timedOut,
               described,
                    resolved >>

\* value.forEach(v => requestHeaders.set(key, v)), or requestHeaders.set(key,
\* value): Headers.set replaces what the header held, so the header is left
\* with the last value set
HeadersSet(values) ==
    IF values = << >> THEN << >> ELSE << values[Len(values)] >>

\* redirect: options.followRedirects > 0 ? 'follow' : 'manual'; undefined > 0 is false
RedirectMode(o) == IF o.hasFollowRedirects /\ o.followRedirects > 0 THEN "follow" ELSE "manual"

\* the statuses fetch takes as redirects
FetchRedirectStatuses == Statuses \cap {301, 302, 303, 307, 308}

\* fetch follows by itself: a redirect status with a Location in mode 'follow'
FetchFollows(init, r) ==
    /\ init.redirect = "follow"
    /\ r.status \in FetchRedirectStatuses
    /\ r.location # NoLocation

\* response.status: in mode 'manual' a redirect comes back as an opaque
\* redirect response, whose status is 0
FetchStatus(init, r) ==
    IF init.redirect = "manual" /\ r.status \in FetchRedirectStatuses THEN 0 ELSE r.status

\* the promise of fetch or of arrayBuffer rejected with the signal's AbortError
DomAbortRejection ==
    [kind |-> "rejected", what |-> "domAbort", status |-> 0, headers |-> NoHeaders,
     body |-> << >>, message |-> NoMessage]

\* the promise of fetch or of arrayBuffer rejected with a TypeError
NetworkRejection ==
    [kind |-> "rejected", what |-> "typeError", status |-> 0, headers |-> NoHeaders,
     body |-> << >>, message |-> NoMessage]

\* the object xhr returns after arrayBuffer(): always a resolution
BrowserResponse(init, r, collected) ==
    [kind |-> "resolved", what |-> "response", status |-> FetchStatus(init, r),
     headers |-> IF FetchStatus(init, r) = 0 THEN NoHeaders
                 ELSE [location |-> r.location, encoding |-> r.encoding],
     body |-> collected, message |-> NoMessage]

\* xhr of the browser up to `await fetch(requestInfo)`
BrowserCall ==
    /\ pc = "idle"
    /\ \E type \in Methods, rt \in {"buffer", "stream"}, fr \in Budgets,
          tok \in BOOLEAN, pre \in BOOLEAN, hv \in HeaderValues :
         LET given == [NoOptions EXCEPT !.type = type, !.responseType = rt,
                                        !.hasFollowRedirects = fr.given,
                                        !.followRedirects = fr.n,
                                        !.token = tok, !.headers = hv]
         IN  /\ pre => tok
             /\ callOpts' = given
             /\ options' = given
             /\ requestInit' = [method |-> type, redirect |-> RedirectMode(given),
                                headers |-> HeadersSet(hv), signal |-> tok]
             /\ tokenCancelled' = pre
             /\ cancelledAt' = IF pre THEN "before" ELSE "none"
             /\ IF pre
                THEN pc' = "done" /\ outcome' = DomAbortRejection /\ requests' = 0
                ELSE pc' = "fetching" /\ outcome' = outcome /\ requests' = 1
    /\ UNCHANGED << res, data, written, preReissues >>
    /\ UNCHANGED nodeOnly

\* fetch gets a redirect it follows; servers redirect MaxBudget + 1 times at most
FetchRedirect ==
    /\ pc = "fetching"
    /\ requests <= MaxBudget + 1
    /\ \E st \in Statuses, loc \in Locations :
         LET r == [status |-> st, location |-> loc, encoding |-> "none"]
         IN  /\ FetchFollows(requestInit, r)
             /\ res' = r
    /\ requests' = requests + 1
    /\ preReissues' = preReissues + 1
    /\ UNCHANGED << pc, callOpts, options, requestInit, tokenCancelled, data, outcome,
                    written, cancelledAt >>
    /\ UNCHANGED nodeOnly

\* fetch resolves with a response: a streamed call returns it at once, a
\* buffered one awaits response.arrayBuffer()
FetchResponse ==
    /\ pc = "fetching"
    /\ \E st \in Statuses, loc \in Locations :
         LET r == [status |-> st, location |-> loc, encoding |-> "none"]
         IN  /\ ~FetchFollows(requestInit, r)
             /\ res' = r
             /\ IF isStreamXHROptions(options)
                THEN /\ pc' = "done"
                     /\ outcome' = [StreamResponse(r) EXCEPT
                                      !.status = FetchStatus(requestInit, r)]
                ELSE /\ pc' = "reading"
                     /\ outcome' = outcome
    /\ UNCHANGED << callOpts, options, requestInit, tokenCancelled, data, written,
                    requests, preReissues, cancelledAt >>
    /\ UNCHANGED nodeOnly

\* a chunk of the body arrives while arrayBuffer() is awaited
BrowserData ==
    /\ pc = "reading"
    /\ FetchStatus(requestInit, res) # 0
    /\ ~hasNoBody(options.type, res.status)
    /\ Len(written) < MaxChunks
    /\ \E b \in Bytes :
         /\ written' = Append(written, b)
         /\ data' = Append(data, b)
    /\ UNCHANGED << pc, callOpts, options, requestInit, tokenCancelled, res, outcome,
                    requests, preReissues, cancelledAt >>
    /\ UNCHANGED nodeOnly

\* arrayBuffer() resolves and xhr returns its response object
BrowserBodyEnd ==
    /\ pc = "reading"
    /\ pc' = "done"
    /\ outcome' = BrowserResponse(requestInit, res, data)
    /\ UNCHANGED << callOpts, options, requestInit, tokenCancelled, res, data, written,
                    requests, preReissues, cancelledAt >>
    /\ UNCHANGED nodeOnly

\* the network fails: fetch or arrayBuffer rejects and so does xhr
FetchError ==
    /\ pc \in {"fetching", "reading"}
    /\ pc' = "done"
    /\ outcome' = NetworkRejection
    /\ UNCHANGED << callOpts, options, requestInit, tokenCancelled, res, data, written,
                    requests, preReissues, cancelledAt >>
    /\ UNCHANGED nodeOnly

\* the token fires: controller.abort() rejects the pending fetch or arrayBuffer
BrowserAbort ==
    /\ callOpts.token
    /\ ~tokenCancelled
    /\ pc # "idle"
    /\ tokenCancelled' = TRUE
    /\ cancelledAt' = pc
    /\ IF pc \in {"fetching", "reading"}
       THEN pc' = "done" /\ outcome' = DomAbortRejection
       ELSE UNCHANGED << pc, outcome >>
    /\ UNCHANGED << callOpts, options, requestInit, res, data, written, requests,
                    preReissues >>
    /\ UNCHANGED nodeOnly

NextBrowser ==
    \/ BrowserCall
    \/ FetchRedirect
    \/ FetchResponse
    \/ BrowserData
    \/ BrowserBodyEnd
    \/ FetchError
    \/ BrowserAbort

SpecBrowser == Init /\ [][NextBrowser]_vars

(* --------------------------- proxy resolution ------------------------- *)

\* what is kept of the resolutions for one url: the options they were made
\* under, how many there were (1, or 2 for more), the first and the last agent
Resolution(r, o, agent) ==
    IF r.n > 0 /\ r.o = o
    THEN [r EXCEPT !.n = 2, !.last = agent]
    ELSE [n |-> 1, o |-> o, first |-> agent, last |-> agent]

\* variant: the configured proxy URL is used up by the resolution
ResolveProxy_ClearsProxyUrl ==
    /\ \E url \in Targets :
         LET o == [proxyUrl |-> proxyUrl, strictSSL |-> strictSSL]
         IN  resolved' = [resolved EXCEPT
                            ![url] = Resolution(resolved[url], o, getProxyAgent(url, o))]
    /\ proxyUrl' = NoProxy
    /\ UNCHANGED << pc, callOpts, options, reqOptions, tokenCancelled, res, readable,
                    isCompleted, data, queue, body, delivered, outcome, written,
                    requests, preReissues, postReissues, cancelledAt, followed,
                    strictSSL, env, lastConfigure, atCall, timedOut,
                    requestInit, described >>

\* getProxyAgent(url, { proxyUrl, strictSSL }) as xhr calls it
ResolveProxy ==
    /\ \E url \in Targets :
         LET o == [proxyUrl |-> proxyUrl, strictSSL |-> strictSSL]
         IN  resolved' = [resolved EXCEPT
                            ![url] = Resolution(resolved[url], o, getProxyAgent(url, o))]
    /\ UNCHANGED << pc, callOpts, options, reqOptions, tokenCancelled, res, readable,
                    isCompleted, data, queue, body, delivered, outcome, written,
                    requests, preReissues, postReissues, cancelledAt, followed,
                    proxyUrl, strictSSL, env, lastConfigure, atCall, timedOut,
                    requestInit, described >>

\* resolutions under every environment, between calls of configure
NextResolve ==
    \/ configure
    \/ ResolveProxy

SpecResolve == InitProxy /\ [][NextResolve]_vars

(* ---------------------- getErrorStatusDescription --------------------- *)

StatusInputs == (0 .. MaxStatus) \cup {1223}

\* variant: the switch has no default
getErrorStatusDescription_NoDefault(status) ==
    IF status < 400 \/ status \notin ({400, 401} \cup (403 .. 415) \cup (500 .. 503))
    THEN Nothing
    ELSE Fixed("described")

getErrorStatusDescription(status) ==
    IF status < 400 THEN Nothing
    ELSE CASE
              status = 400 -> Fixed("Bad request. The request cannot be fulfilled due to bad syntax.")
           [] status = 401 -> Fixed("Unauthorized. The server is refusing to respond.")
           [] status = 403 -> Fixed("Forbidden. The server is refusing to respond.")
           [] status = 404 -> Fixed("Not Found. The requested location could not be found.")
           [] status = 405 -> Fixed("Method not allowed. A request was made using a request method not supported by that location.")
           [] status = 406 -> Fixed("Not Acceptable. The server can only generate a response that is not accepted by the client.")
           [] status = 407 -> Fixed("Proxy Authentication Required. The client must first authenticate itself with the proxy.")
           [] status = 408 -> Fixed("Request Timeout. The server timed out waiting for the request.")
           [] status = 409 -> Fixed("Conflict. The request could not be completed because of a conflict in the request.")
           [] status = 410 -> Fixed("Gone. The requested page is no longer available.")
           [] status = 411 -> Fixed("Length Required. The \"Content-Length\" is not defined.")
           [] status = 412 -> Fixed("Precondition Failed. The precondition given in the request evaluated to false by the server.")
           [] status = 413 -> Fixed("Request Entity Too Large. The server will not accept the request, because the request entity is too large.")
           [] status = 414 -> Fixed("Request-URI Too Long. The server will not accept the request, because the URL is too long.")
           [] status = 415 -> Fixed("Unsupported Media Type. The server will not accept the request, because the media type is not supported.")
           [] status = 500 -> Fixed("Internal Server Error.")
           [] status = 501 -> Fixed("Not Implemented. The server either does not recognize the request method, or it lacks the ability to fulfill the request.")
           [] status = 502 -> Fixed("Bad Gateway. The upstream server did not respond.")
           [] status = 503 -> Fixed("Service Unavailable. The server is currently unavailable (overloaded or down).")
           [] OTHER -> Generic(status)

\* getErrorStatusDescription(status) called with any status
Describe ==
    /\ \E status \in StatusInputs :
         described' = [status |-> status, result |-> getErrorStatusDescription(status),
                       called |-> TRUE]
    /\ UNCHANGED << pc, callOpts, options, reqOptions, tokenCancelled, res, readable,
                    isCompleted, data, queue, body, delivered, outcome, written,
                    requests, preReissues, postReissues, cancelledAt, followed,
                    proxyUrl, strictSSL, env, lastConfigure, atCall, timedOut,
                    requestInit, resolved >>

NextDescribe ==
    \/ Describe

SpecDescribe == Init /\ [][NextDescribe]_vars

(* ======================== properties of the code ====================== *)

Buffered == callOpts.responseType = "buffer"

\* the end handler of the last hop ran and started no re-issue
EndHandled == pc \in {"done", "crashed"} /\ readable.state = "ended"

\* what the caller gets as body for the bytes the server wrote
Expected(rd, w) == IF rd.kind = "raw" THEN w ELSE Decode(rd.kind, w)

\* C1: the re-issues made for one call, by request.handler and by xhr's end
\* handler together, never exceed the call's followRedirects.
C1_RedirectsBounded == preReissues + postReissues <= EffectiveBudget(callOpts)

\* C2: in buffered mode, once the token has fired while the call was in
\* flight, the call is rejected with the AbortError (at the latest when the
\* then-callback of xhr has run) and with nothing else.
C2_CancelRejectsWithAbort ==
    (Buffered /\ cancelledAt \in {"connecting", "headers", "buffering", "crashed"})
        => \/ outcome = AbortRejection
           \/ pc = "headers" /\ outcome.kind = "pending"

\* the part of C2 that is about what the call must not do: after the token
\* fired in flight the call neither resolves nor rejects with a 404/500
C2_NeverAnotherOutcome ==
    (Buffered /\ cancelledAt \in {"connecting", "headers", "buffering", "crashed"})
        => outcome.kind = "pending" \/ outcome = AbortRejection

\* C3: a call made with an already cancelled token is rejected with the
\* AbortError and never resolves, whatever the server would answer.
C3_PreCancelledRejectsWithAbort ==
    cancelledAt = "before" => outcome = AbortRejection

C3_Witness ==
    /\ cancelledAt = "before"
    /\ requests = 1
    /\ outcome.kind = "rejected" /\ outcome.what = "abort"

\* C4: a buffered call whose last hop has delivered its complete response
\* is settled.
C4_SettlesOnceDelivered == (Buffered /\ EndHandled) => outcome.kind # "pending"

\* C5 as stated: when the terminal response has a success status the call
\* resolves with that status and the body is what the server wrote.
C5_BodyIsBytesWritten ==
    (Buffered /\ EndHandled /\ IsSuccess(res.status))
        => /\ outcome.kind = "resolved"
           /\ outcome.status = res.status
           /\ outcome.body = written

\* C5 amended: when the terminal response has a success status and its
\* stream ends without error, the call resolves with that status; the body is
\* the chunks the server wrote, in order, when no decoder is interposed, and
\* the decoder's output for them when one is.
C5_BodyIsWrittenOrDecoded ==
    (Buffered /\ EndHandled /\ IsSuccess(res.status))
        => /\ outcome.kind = "resolved"
           /\ outcome.what = "response"
           /\ outcome.status = res.status
           /\ outcome.body = Expected(readable, written)
           /\ (readable.kind = "raw" => outcome.body = written)

C5_Witness ==
    /\ Buffered /\ EndHandled
    /\ res.status = 1223
    /\ readable.kind = "raw"
    /\ written = << 0, 1 >>
    /\ outcome.kind = "resolved" /\ outcome.body = << 0, 1 >>

\* C6: in buffered mode, when the terminal response has a status that is
\* no success, the call is rejected with the Response of that hop.
C6_FailureRejectsWithResponse ==
    (Buffered /\ EndHandled /\ ~IsSuccess(res.status))
        => /\ outcome.kind = "rejected"
           /\ outcome.what = "response"
           /\ outcome.status = res.status
           /\ outcome.headers = [location |-> res.location, encoding |-> res.encoding]

\* C7: a 3xx response with a Location that arrives while the hop budget is
\* greater than 0 is followed: the next request goes to the Location, a
\* path-only one taken on the origin of the request that was redirected; the
\* caller gets the status and body of the last leg and never a response
\* that request.handler follows.
C7_RedirectFollowed ==
    /\ followed.location.kind = "path"
         => reqOptions.url = [origin |-> followed.from.origin, path |-> followed.location.path]
    /\ followed.location.kind = "abs"
         => reqOptions.url = [origin |-> followed.location.origin,
                              path |-> followed.location.path]
    /\ (Buffered /\ followed # NoFollowed /\ EndHandled /\ IsSuccess(res.status))
         => /\ outcome.kind = "resolved"
            /\ outcome.status = res.status
            /\ outcome.body = Expected(readable, written)
    /\ outcome.what \in {"response", "stream"}
         => /\ outcome.status = res.status
            /\ outcome.headers.location = res.location
            /\ ~( /\ outcome.status >= 300 /\ outcome.status < 400
                  /\ outcome.headers.location # NoLocation
                  /\ reqOptions.followRedirects > 0 )

C7_Witness ==
    /\ Buffered
    /\ followed = [from |-> StartUrl, location |-> [kind |-> "path", origin |-> "", path |-> "/bar"]]
    /\ reqOptions.url = [origin |-> "A", path |-> "/bar"]
    /\ EndHandled
    /\ outcome.kind = "resolved" /\ outcome.status = 200 /\ outcome.body = << 1, 0 >>

C9_CancelNeverEndsNormally == cancelledAt = "streaming" => body.seen # "done"

\* C10 as stated: a body stream read to its end has delivered exactly the
\* bytes the server wrote.
C10_DeliveredIsBytesWritten ==
    (pc = "streaming" /\ body.seen = "done") => delivered = written

\* C10 amended: while the body stream has not failed, the chunks delivered
\* followed by those still queued are, in order and once each, the chunks
\* the stream xhr reads has emitted: the bytes the server wrote when no
\* decoder is interposed, the decoder's output otherwise; at end-of-stream
\* nothing is left in the queue.
C10_DeliveredInOrder ==
    (pc = "streaming" /\ body.state \in {"readable", "closed"})
        => /\ delivered \o queue = Expected(readable, written)
           /\ (readable.kind = "raw" => delivered \o queue = written)
           /\ (body.seen = "done" => queue = << >> /\ readable.state = "ended")

C10_Witness ==
    /\ pc = "streaming"
    /\ body.seen = "done"
    /\ readable.kind = "raw"
    /\ ~tokenCancelled
    /\ delivered = << 0, 1 >> /\ written = << 0, 1 >>

\* a streamed call is in flight or over
Streamed == pc # "idle" /\ callOpts.responseType = "stream"

\* C11: in streamed mode with the default hop budget a 301 with a path-only
\* Location is followed by request.handler: the next request goes to that
\* path on the redirected origin and is streamed too, the call resolves with
\* the stream response of the last leg (never with a response the handler
\* follows), and a body stream read to its end has delivered the content
\* served there.
C11_StreamRedirectFollowed ==
    (Streamed /\ ~callOpts.hasFollowRedirects)
        => /\ followed.location.kind = "path"
                => /\ reqOptions.url = [origin |-> followed.from.origin,
                                        path |-> followed.location.path]
                   /\ reqOptions.responseType = "stream"
           /\ outcome.what = "stream"
                => /\ outcome.kind = "resolved"
                   /\ outcome.status = res.status
                   /\ ~RedirectsBeforeBody_IgnoresBudget(reqOptions, res)
                        \/ reqOptions.followRedirects = 0
           /\ (pc = "streaming" /\ body.seen = "done")
                => delivered = Expected(readable, written)

C11_Witness ==
    /\ Streamed /\ ~callOpts.hasFollowRedirects
    /\ preReissues = 1
    /\ followed = [from |-> StartUrl, location |-> [kind |-> "path", origin |-> "", path |-> "/bar"]]
    /\ reqOptions.url = [origin |-> "A", path |-> "/bar"]
    /\ outcome.kind = "resolved" /\ outcome.what = "stream" /\ outcome.status = 200
    /\ readable.kind = "raw"
    /\ body.seen = "done"
    /\ delivered = << 0, 1 >> /\ written = << 0, 1 >>

\* C12 as stated: a streamed call issues exactly one request and follows no
\* redirect.
C12_StreamedIssuesOneRequest ==
    Streamed => requests = 1 /\ preReissues = 0 /\ postReissues = 0

\* C12 amended: in streamed mode the end handler of xhr follows nothing and
\* no request is issued once the stream response was obtained; redirects
\* are followed by request.handler only, at most followRedirects times, and
\* a 3xx response is the stream response the caller gets, with its own
\* status, only when it has no Location or the hop budget is used up.
C12_StreamedFollowsOnlyBeforeBody ==
    Streamed
        => /\ postReissues = 0
           /\ requests = preReissues + 1
           /\ preReissues <= EffectiveBudget(callOpts)
           /\ pc # "crashed"
           /\ outcome.what # "response"
           /\ outcome.what = "stream"
                => /\ outcome.status = res.status
                   /\ requests = preReissues + 1
                   /\ (res.status >= 300 /\ res.status < 400)
                        => res.location = NoLocation \/ reqOptions.followRedirects = 0

C12_Witness ==
    /\ Streamed
    /\ callOpts.hasFollowRedirects /\ callOpts.followRedirects = 1
    /\ preReissues = 1 /\ requests = 2
    /\ outcome.kind = "resolved" /\ outcome.what = "stream" /\ outcome.status = 301
    /\ res.location # NoLocation
    /\ body.seen = "done"

\* C19: in buffered mode an error of the response stream after the headers
\* and before the end of the body that is no cancellation rejects the call
\* with the synthesized 500 response, whether xhr reads the response itself
\* or a decoder fed by it; when the token destroyed the stream the call is
\* rejected with the AbortError.
C19_StreamErrorRejects ==
    /\ (Buffered /\ readable.state # "none" /\ ~readable.srcAlive /\ ~tokenCancelled)
         => /\ outcome.kind = "rejected"
            /\ outcome.what = "unableToAccess"
            /\ outcome.status = 500
    /\ (Buffered /\ cancelledAt = "buffering" /\ readable.state = "destroyed")
         => outcome = AbortRejection

\* C20: xhr reads a zlib decoder exactly when content-encoding is gzip or
\* deflate and the exchange is not body-less (HEAD, status 1xx, 204, 304),
\* the decoder being the one of that encoding; otherwise the body handed to
\* the caller is the bytes the server wrote. A 304 that declares gzip is
\* read raw and rejected with status 304 and an empty body.
C20_DecoderExactlyWhenEncodedBody ==
    /\ readable.state # "none"
         => /\ readable.kind # "raw"
                 <=> /\ res.encoding \in {"gzip", "deflate"}
                     /\ options.type # "HEAD"
                     /\ ~(res.status >= 100 /\ res.status < 200)
                     /\ res.status \notin {204, 304}
            /\ readable.kind # "raw" => readable.kind = res.encoding
    /\ (Buffered /\ EndHandled /\ readable.kind = "raw" /\ outcome.what = "response")
         => outcome.body = written
    /\ (pc = "streaming" /\ readable.kind = "raw" /\ body.state \in {"readable", "closed"})
         => delivered \o queue = written
    /\ (Buffered /\ EndHandled /\ res.status = 304 /\ res.encoding = "gzip")
         => /\ outcome.kind = "rejected"
            /\ outcome.what = "response"
            /\ outcome.status = 304
            /\ outcome.body = << >>

C20_Witness ==
    /\ Buffered /\ EndHandled
    /\ options.type = "GET"
    /\ res.status = 304 /\ res.encoding = "gzip"
    /\ readable.kind = "raw"
    /\ outcome.kind = "rejected" /\ outcome.status = 304 /\ outcome.body = << >>

\* C13: once the timeout of a call has elapsed on the request in flight,
\* before any response headers, the request is aborted and the call is
\* rejected: it is not pending any more.
C13_TimeoutAbortsRequest ==
    (requests > 0 /\ timedOut = requests)
        => /\ pc = "done"
           /\ outcome.kind = "rejected"

\* a call is in flight or over that passed no agent of its own
CalledWithoutAgent == pc # "idle" /\ callOpts.agent = NoAgent

ProxyAgentKinds == {"HttpProxyAgent", "HttpsProxyAgent"}

ProxyVariables(url) ==
    IF url.origin = "B"
    THEN << env.HTTPS_PROXY, env.https_proxy, env.HTTP_PROXY, env.http_proxy >>
    ELSE << env.HTTP_PROXY, env.http_proxy >>

\* the proxy URL that takes precedence: the configured one, else the first
\* variable of the target's list that is set
Preferred(url) ==
    LET list == ProxyVariables(url)
        set  == { i \in DOMAIN list : list[i] # NoProxy }
    IN  IF atCall.proxyUrl # NoProxy THEN atCall.proxyUrl
        ELSE IF set = {} THEN NoProxy
        ELSE list[CHOOSE i \in set : \A j \in set : i <= j]

\* C15: for a call without an agent of its own the proxy is the configured
\* URL if one is set; else, for an https target, the first set one of
\* HTTPS_PROXY, https_proxy, HTTP_PROXY, http_proxy, and for an http target
\* the first set one of HTTP_PROXY, http_proxy; an http(s) proxy URL so
\* chosen is the proxy of the agent, and with none set the call goes direct.
C15_ProxyPrecedence ==
    CalledWithoutAgent
        => /\ Preferred(reqOptions.url) = NoProxy => reqOptions.agent = NoAgent
           /\ Preferred(reqOptions.url).scheme \in {"http", "https"}
                => /\ reqOptions.agent.kind \in ProxyAgentKinds
                   /\ reqOptions.agent.proxy = Preferred(reqOptions.url)

C15_Witness ==
    /\ CalledWithoutAgent
    /\ atCall.proxyUrl = NoProxy
    /\ reqOptions.url = SecureUrl
    /\ env.HTTPS_PROXY = NoProxy /\ env.https_proxy # NoProxy
    /\ env.HTTP_PROXY # NoProxy /\ env.http_proxy # NoProxy
    /\ reqOptions.agent.kind = "HttpsProxyAgent"
    /\ reqOptions.agent.proxy = env.https_proxy

\* the strictSSL value that is to govern a call: its own, else the
\* configured one
WantedStrictSSL == IF callOpts.hasStrictSSL THEN callOpts.strictSSL ELSE atCall.strictSSL

\* C16: the strictSSL a call specifies, or the configured value when it
\* specifies none, is the certificate check of its requests, both towards
\* the endpoint and in the proxy agent built for it (the HttpsProxyAgent,
\* the one that is given a rejectUnauthorized).
C16_StrictSSLGoverns ==
    pc # "idle"
        => /\ RequestOpts(reqOptions).rejectUnauthorized = WantedStrictSSL
           /\ reqOptions.agent.kind = "HttpsProxyAgent"
                => reqOptions.agent.rejectUnauthorized = WantedStrictSSL

\* C17: after a re-issue, by request.handler or by xhr's end handler, the
\* options of the request are those of the call in every field but url and
\* followRedirects: method, headers, credentials, data, timeout, token, TLS
\* strictness and agent.
C17_ReissueKeepsOptions ==
    (pc # "idle" /\ preReissues + postReissues > 0)
        => /\ reqOptions.type = callOpts.type
           /\ reqOptions.headers = callOpts.headers
           /\ reqOptions.user = callOpts.user
           /\ reqOptions.password = callOpts.password
           /\ reqOptions.data = callOpts.data
           /\ reqOptions.timeout = callOpts.timeout
           /\ reqOptions.token = callOpts.token
           /\ reqOptions.strictSSL = WantedStrictSSL
           /\ reqOptions.agent =
                IF callOpts.agent # NoAgent THEN callOpts.agent
                ELSE getProxyAgent(callOpts.url, [proxyUrl |-> atCall.proxyUrl,
                                                  strictSSL |-> atCall.strictSSL])

\* the part of C17 about request.handler: its re-issues keep every field
C17_HandlerKeepsOptions ==
    (pc # "idle" /\ preReissues > 0 /\ postReissues = 0)
        => /\ [reqOptions EXCEPT !.url = callOpts.url,
                                 !.followRedirects = EffectiveBudget(callOpts)]
              = [options EXCEPT !.url = callOpts.url,
                                !.followRedirects = EffectiveBudget(callOpts)]
           /\ reqOptions.agent =
                IF callOpts.agent # NoAgent THEN callOpts.agent
                ELSE getProxyAgent(callOpts.url, [proxyUrl |-> atCall.proxyUrl,
                                                  strictSSL |-> atCall.strictSSL])

\* C18: a request that fails before any response headers, without the token
\* having fired, rejects the call with a synthesized response of status 404
\* with no headers and an empty body; its message names the URL xhr was
\* called with and mentions a proxy exactly when the request had an agent.
C18_ConnectErrorRejects404 ==
    /\ (pc = "done" /\ res = NoRes /\ ~tokenCancelled) => outcome.what = "unableToConnect"
    /\ outcome.what = "unableToConnect"
         => /\ outcome.kind = "rejected"
            /\ outcome.status = 404
            /\ outcome.headers = NoHeaders
            /\ outcome.body = << >>
            /\ outcome.message.url = options.url
            /\ outcome.message.format \in
                 {"Unable to connect to {0} through a proxy. Error: {1}",
                  "Unable to connect to {0}. Error: {1}"}
            /\ outcome.message.format = "Unable to connect to {0} through a proxy. Error: {1}"
                 <=> RequestOpts(reqOptions).agent # NoAgent

C18_Witness ==
    /\ pc = "done" /\ res = NoRes
    /\ preReissues = 1
    /\ reqOptions.agent.kind = "HttpProxyAgent"
    /\ outcome.kind = "rejected" /\ outcome.status = 404
    /\ outcome.message.format = "Unable to connect to {0} through a proxy. Error: {1}"

\* C21: a 200 response that declares content-encoding gzip and whose body
\* has no bytes resolves the call with status 200 and an empty body: the
\* decoder ends on its empty input and raises no error.
C21_EmptyGzipResolvesEmpty ==
    /\ (Buffered /\ readable.kind = "gzip" /\ written = << >>)
         => /\ readable.state # "destroyed" \/ tokenCancelled
            /\ outcome.what # "unableToAccess"
    /\ (Buffered /\ EndHandled /\ res.status = 200 /\ readable.kind = "gzip"
          /\ written = << >>)
         => /\ outcome.kind = "resolved"
            /\ outcome.status = 200
            /\ outcome.body = << >>

C21_Witness ==
    /\ Buffered /\ EndHandled
    /\ options.type = "GET"
    /\ res.status = 200 /\ res.encoding = "gzip"
    /\ readable.kind = "gzip" /\ written = << >>
    /\ outcome.kind = "resolved" /\ outcome.status = 200 /\ outcome.body = << >>

\* C22: when the proxy URL that takes precedence for a call, configured or
\* from the environment, is no http(s) URL, the call has no agent: its
\* request is issued directly, and the call is pending or has failed on
\* the transport like a direct one, never on the proxy URL.
C22_InvalidProxyIsNoProxy ==
    (CalledWithoutAgent /\ Preferred(reqOptions.url) # NoProxy
       /\ Preferred(reqOptions.url).scheme \notin {"http", "https"})
        => /\ requests = 1
           /\ reqOptions.agent = NoAgent
           /\ RequestOpts(reqOptions).agent = NoAgent
           /\ pc = "connecting" => outcome.kind = "pending"
           /\ outcome.kind # "pending"
                => /\ outcome.what = "unableToConnect"
                   /\ outcome.message.format = "Unable to connect to {0}. Error: {1}"

C22_Witness ==
    /\ CalledWithoutAgent
    /\ atCall.proxyUrl = NoProxy
    /\ env.HTTP_PROXY = [scheme |-> "socks", host |-> "E9"]
    /\ env.http_proxy # NoProxy
    /\ reqOptions.url = StartUrl
    /\ pc = "connecting" /\ requests = 1
    /\ reqOptions.agent = NoAgent

\* the options the node implementation would hold at this point of a call
\* that left followRedirects out: the default budget less the hops made
NodeOptionsNow ==
    [callOpts EXCEPT !.hasFollowRedirects = TRUE,
                     !.followRedirects = EffectiveBudget(callOpts) - preReissues]

\* C23: with followRedirects left out the browser implementation treats a
\* redirect as the node implementation does: it never resolves the call on
\* a redirect response that request.handler of the node implementation
\* would follow, and what it delivers has the status of the final leg.
C23_DefaultFollowedInBoth ==
    (pc # "idle" /\ ~callOpts.hasFollowRedirects /\ outcome.kind = "resolved"
       /\ res.status \in FetchRedirectStatuses)
        => /\ ~RedirectsBeforeBody(NodeOptionsNow, res)
           /\ outcome.status = res.status

\* C24: a buffered call whose response has a status outside [200,300) is
\* rejected by the browser implementation, as by the node implementation,
\* with a response that carries the server's status.
C24_FailureRejectsInBoth ==
    (Buffered /\ pc = "done" /\ outcome.what = "response"
       /\ ~(res.status >= 200 /\ res.status < 300))
        => /\ outcome.kind = "rejected"
           /\ outcome.status = res.status

\* C25: every string of a header value is sent as a value of its own, in
\* order, by the browser implementation (the Headers handed to fetch) and
\* by the node implementation (the headers of the request's opts).
C25_EveryHeaderValueSent ==
    /\ requestInit # NoRequestInit => requestInit.headers = callOpts.headers
    /\ (requestInit = NoRequestInit /\ requests > 0)
         => RequestOpts(reqOptions).headers = callOpts.headers

\* the part of C25 about the node implementation
C25_NodeSendsEveryValue ==
    requests > 0 => RequestOpts(reqOptions).headers = callOpts.headers

\* the statuses the switch of getErrorStatusDescription has a case for
RecognizedStatuses == {400, 401} \cup (403 .. 415) \cup (500 .. 503)

\* C26: getErrorStatusDescription returns nothing for a status below 400, a
\* fixed text without arguments for each recognized status, and the generic
\* 'HTTP status code {0}' text with the status for every other status of
\* 400 or more; for a status of 400 or more it never returns nothing.
C26_StatusDescription ==
    described.called
        => /\ described.status < 400 => described.result = Nothing
           /\ described.status >= 400 => described.result # Nothing
           /\ described.status \in RecognizedStatuses
                => /\ described.result.arg = 0
                   /\ described.result.text \notin {"", "HTTP status code {0}"}
           /\ (described.status >= 400 /\ described.status \notin RecognizedStatuses)
                => described.result = [text |-> "HTTP status code {0}",
                                       arg |-> described.status]

C26_Witness ==
    /\ described.called
    /\ described.status = 402
    /\ described.result = [text |-> "HTTP status code {0}", arg |-> 402]

\* C27: in buffered mode with a hop budget above 0, a response that has ended
\* with status 300, 301, 302, 303 or 307 and without a Location header,
\* the token never having fired, is classified like any other response: the call is rejected with that
\* response and its status.
C27_RedirectWithoutLocationRejects ==
    (Buffered /\ EndHandled /\ options.followRedirects > 0 /\ cancelledAt = "none"
       /\ res.status \in {300, 301, 302, 303, 307} /\ res.location = NoLocation)
        => /\ outcome.kind = "rejected"
           /\ outcome.what = "response"
           /\ outcome.status = res.status

\* the state of the exchange in flight, in the words of the state machine;
\* "THROWN" is the end listener left by an exception, a state the machine
\* does not have
ExchangeState ==
    CASE pc = "idle"       -> "PENDING"
      [] pc = "connecting" -> "CONNECTING"
      [] pc = "headers"    -> "HEADERS_RECEIVED"
      [] pc = "buffering"  -> "BUFFERING"
      [] pc = "streaming"  -> IF body.state = "errored"
                              THEN IF body.err = "abort" THEN "ABORTED" ELSE "FAILED"
                              ELSE IF body.state = "closed" THEN "DRAINED" ELSE "STREAMING"
      [] pc = "done"       -> IF outcome.what = "abort" THEN "ABORTED"
                              ELSE IF outcome.what = "response" THEN "COMPLETE"
                              ELSE "FAILED"
      [] OTHER             -> "THROWN"

TerminalStates == {"COMPLETE", "DRAINED", "ABORTED", "FAILED"}

\* the moves of the state machine; a redirect starts the next exchange
MachineMoves ==
    {<<"PENDING", "CONNECTING">>, <<"CONNECTING", "HEADERS_RECEIVED">>,
     <<"HEADERS_RECEIVED", "BUFFERING">>, <<"HEADERS_RECEIVED", "STREAMING">>,
     <<"BUFFERING", "COMPLETE">>, <<"STREAMING", "DRAINED">>,
     <<"HEADERS_RECEIVED", "CONNECTING">>, <<"BUFFERING", "CONNECTING">>}
    \cup {<<"PENDING", "PENDING">>, <<"CONNECTING", "CONNECTING">>,
          <<"HEADERS_RECEIVED", "HEADERS_RECEIVED">>, <<"BUFFERING", "BUFFERING">>,
          <<"STREAMING", "STREAMING">>, <<"COMPLETE", "COMPLETE">>,
          <<"DRAINED", "DRAINED">>, <<"ABORTED", "ABORTED">>, <<"FAILED", "FAILED">>}
    \cup {<<"PENDING", "ABORTED">>, <<"CONNECTING", "ABORTED">>,
          <<"HEADERS_RECEIVED", "ABORTED">>, <<"BUFFERING", "ABORTED">>,
          <<"STREAMING", "ABORTED">>}
    \cup {<<"PENDING", "FAILED">>, <<"CONNECTING", "FAILED">>,
          <<"HEADERS_RECEIVED", "FAILED">>, <<"BUFFERING", "FAILED">>,
          <<"STREAMING", "FAILED">>}

\* the exchange moves only along the machine
C28_MovesAlongMachine == [][(<< ExchangeState, ExchangeState' >>) \in MachineMoves]_vars

\* ABORTED only after the token fired, and the AbortError is what is delivered
C28_AbortedOnlyOnCancel ==
    ExchangeState = "ABORTED"
        => /\ tokenCancelled
           /\ \/ pc = "done" /\ outcome = AbortRejection
              \/ pc = "streaming" /\ body.err = "abort"

\* FAILED only without a cancellation behind it, and what is delivered has
\* the shape of a Response: status 404 or 500 and a message
C28_FailedDeliversResponse ==
    ExchangeState = "FAILED"
        => /\ pc = "done"
           /\ outcome.kind = "rejected"
           /\ outcome.status \in {404, 500}
           /\ outcome.message # NoMessage

\* a settled call keeps its outcome
C28_SettledOutcomeKept == [][outcome.kind # "pending" => outcome' = outcome]_vars

\* C28: each exchange moves only along PENDING, CONNECTING, HEADERS_RECEIVED,
\* then BUFFERING to COMPLETE or STREAMING to DRAINED; it ends ABORTED only
\* when the token fired, delivering the AbortError; it ends FAILED only on
\* another error, delivering an error shaped like a Response; once the call
\* has settled no later event changes the delivered outcome.
C28_ExchangeStateMachine ==
    /\ C28_MovesAlongMachine
    /\ []C28_AbortedOnlyOnCancel
    /\ []C28_FailedDeliversResponse
    /\ C28_SettledOutcomeKept

\* a hop is issued in this step
HopIssued == requests' = requests + 1

\* the step delivers a redirect response to request.handler, which re-issues
ReissuedByHandler ==
    /\ pc = "connecting"
    /\ preReissues' = preReissues + 1 /\ postReissues' = postReissues
    /\ followed'.location # NoLocation

\* the step ends a redirect response delivered earlier, and xhr re-issues
ReissuedAtEnd ==
    /\ pc = "buffering"
    /\ res.status \in {300, 301, 302, 303, 307} /\ res.location # NoLocation
    /\ postReissues' = postReissues + 1 /\ preReissues' = preReissues

\* C29: the re-issues of one call are strictly sequential: a hop is issued
\* by the call itself or for one redirect response that has been delivered,
\* one hop per such response, and the hop awaiting a response is the only
\* one: every hop but the last was answered by a redirect that was followed.
C29_ReissuesSequential ==
    /\ [][requests' # requests
            => /\ HopIssued
               /\ pc = "idle" \/ ReissuedByHandler \/ ReissuedAtEnd
               /\ pc' \in {"connecting", "done"}]_vars
    /\ [](pc # "idle" => requests = 1 + preReissues + postReissues)
    /\ [][(pc # "idle" /\ requests' = requests)
            => (preReissues' = preReissues /\ postReissues' = postReissues)]_vars

C29_Witness ==
    /\ pc = "connecting"
    /\ preReissues >= 1
    /\ postReissues >= 1
    /\ requests = 1 + preReissues + postReissues

\* the proxy configuration in effect when the call was made
ConfigurationAtCall == [proxyUrl |-> atCall.proxyUrl, strictSSL |-> atCall.strictSSL]

\* the hop in flight is routed and checked as that configuration says, for
\* the url of the call or the url of the hop
HopUsesConfigurationAtCall ==
    /\ reqOptions.agent \in { getProxyAgent(u, ConfigurationAtCall) :
                                u \in {callOpts.url, options.url, reqOptions.url} }
    /\ RequestOpts(reqOptions).rejectUnauthorized = atCall.strictSSL

\* a call is in flight or over that left agent and strictSSL to the
\* configuration
LeftToConfiguration == pc # "idle" /\ callOpts.agent = NoAgent /\ ~callOpts.hasStrictSSL

\* C30: a configure call made while a call is in flight changes neither the
\* routing nor the TLS strictness of that call: every hop, re-issued hops
\* included, uses the proxy configuration in effect when the call was made.
C30_ConfigureInFlightIgnored == LeftToConfiguration => HopUsesConfigurationAtCall

\* the part of C30 about the first hop and request.handler's re-issues
C30_HandlerHopsKeepConfiguration ==
    (LeftToConfiguration /\ postReissues = 0) => HopUsesConfigurationAtCall

\* the url a path-only Location stands for when it came from the hop in flight
AgainstHop(loc) == [origin |-> reqOptions.url.origin, path |-> loc.path]

\* the part of C31 about request.handler: it resolves against its own url
C31_HandlerResolvesAgainstHop ==
    [][(ReissuedByHandler /\ followed'.location.kind = "path")
          => reqOptions'.url = AgainstHop(followed'.location)]_vars

\* C31: a path-only Location is resolved against the scheme, host and port
\* of the hop whose response carried it, by request.handler and by xhr's
\* end handler, also after earlier hops have left the host of the call.
C31_PathResolvedAgainstHop ==
    /\ C31_HandlerResolvesAgainstHop
    /\ [][(ReissuedAtEnd /\ res.location.kind = "path")
            => reqOptions'.url = AgainstHop(res.location)]_vars

\* the most requests a call of budget n can issue: n by request.handler,
\* then one by the end handler, which starts over with budget n - 1
MostRequests(n) == 1 + (n * (n + 3)) \div 2

\* the call has settled with the redirect response of its last hop
RejectedWithLastRedirect ==
    /\ pc = "done"
    /\ outcome.kind = "rejected"
    /\ outcome.what = "response"
    /\ outcome.status = res.status
    /\ outcome.headers.location = res.location
    /\ res.status \in {301, 308} /\ res.location # NoLocation

\* C32: against a server that answers every request with a redirect carrying
\* a Location, a buffered call of any budget issues a bounded number of
\* requests and then settles, rejected with the last redirect response.
C32_RedirectingServerTerminates ==
    /\ [](pc # "idle" => requests <= MostRequests(EffectiveBudget(callOpts)))
    /\ (pc # "idle") ~> RejectedWithLastRedirect
    /\ [](pc = "done" => RejectedWithLastRedirect)

C32_Witness ==
    /\ RejectedWithLastRedirect
    /\ EffectiveBudget(callOpts) = DefaultFollowRedirects
    /\ res.status = 301
    /\ preReissues >= 1 /\ postReissues >= 1

\* the part of C33 about the order: no chunk is taken from the transport
\* before the stream response has been handed to the caller
C33_ResolvedBeforeBody ==
    (Streamed /\ written # << >>) => (outcome.kind = "resolved" /\ outcome.what = "stream")

\* C33: in streamed mode the stream response is handed to the caller before
\* any chunk is taken from the transport, and chunks are taken only as the
\* caller pulls: beyond the one a pending pull may have asked for, no chunk
\* waits in the body that the caller has not read.
C33_ChunksTakenOnPull ==
    /\ C33_ResolvedBeforeBody
    /\ (Streamed /\ pc = "streaming") => Len(queue) <= 1

\* an 'end' has followed a reported error on a response whose end handler
\* would have re-issued
EndCameAfterError ==
    /\ Buffered
    /\ readable.state = "destroyedEnded"
    /\ options.followRedirects > 0
    /\ res.status = 301 /\ res.location # NoLocation

\* C34: in buffered mode, once the error handler or the end handler has
\* acted for a response (isCompleted is set), nothing that follows on the
\* same stream, a later 'end' included, settles the call differently or
\* starts a re-issue.
C34_EndAfterErrorIgnored ==
    [][(Buffered /\ pc # "idle" /\ isCompleted)
         => /\ outcome' = outcome
            /\ requests' = requests
            /\ postReissues' = postReissues
            /\ isCompleted']_vars

C34_Witness ==
    /\ EndCameAfterError
    /\ outcome.what = "unableToAccess"
    /\ outcome.status = 500
    /\ pc = "done"

\* C35: in streamed mode of the node implementation the call resolves once
\* the headers have reached xhr, whatever the status: the stream response
\* carries the status and the headers of the response and an empty
\* responseText, and a streamed call is rejected only before any headers.
C35_StreamedResolvesAnyStatus ==
    /\ (Streamed /\ pc = "streaming")
         => /\ outcome.kind = "resolved"
            /\ outcome.what = "stream"
            /\ outcome.status = res.status
            /\ outcome.headers = [location |-> res.location, encoding |-> res.encoding]
            /\ outcome.body = << >>
            /\ outcome.message = NoMessage
    /\ (Streamed /\ outcome.kind = "rejected")
         => /\ res = NoRes
            /\ outcome.what \in {"abort", "unableToConnect"}

C35_Witness ==
    /\ Streamed
    /\ pc = "streaming"
    /\ res.status = 404
    /\ outcome.kind = "resolved"
    /\ outcome.status = 404

\* C36: an xhr call never modifies the options object of the caller: the
\* defaults of strictSSL, agent and followRedirects are in the copy only;
\* and it never modifies the process-wide proxy URL and strict-TLS flag,
\* which change in configure steps only and are no proxy and strict TLS
\* until configure is called.
C36_CallLeavesOptionsAndGlobals ==
    /\ [][pc # "idle" => callOpts' = callOpts]_vars
    /\ [](pc # "idle"
            => /\ options.hasStrictSSL /\ options.hasFollowRedirects
               /\ [options EXCEPT !.hasStrictSSL = callOpts.hasStrictSSL,
                                  !.strictSSL = callOpts.strictSSL,
                                  !.agent = callOpts.agent,
                                  !.hasFollowRedirects = callOpts.hasFollowRedirects,
                                  !.followRedirects = callOpts.followRedirects,
                                  !.url = callOpts.url,
                                  !.responseType = callOpts.responseType]
                    = callOpts)
    /\ [][lastConfigure' = lastConfigure
            => (proxyUrl' = proxyUrl /\ strictSSL' = strictSSL)]_vars
    /\ [](~lastConfigure.called => (proxyUrl = NoProxy /\ strictSSL = TRUE))

C36_Witness ==
    /\ pc = "connecting"
    /\ lastConfigure.called
    /\ proxyUrl = lastConfigure.proxyUrl /\ strictSSL = lastConfigure.strictSSL
    /\ ~callOpts.hasStrictSSL /\ options.hasStrictSSL /\ options.strictSSL = FALSE
    /\ callOpts.agent = NoAgent /\ options.agent # NoAgent

====
